---- MODULE Spec2Model ----
(***************************************************************************)
(* Farlance: the job-posting request handler (app/api/jobs/route.ts POST)   *)
(* with its skill-based notification fan-out, and the notification client   *)
(* (lib/notification-client.ts sendFrameNotification) it calls.             *)
(*                                                                         *)
(* One request is followed from its arrival to its answer, against tables  *)
(* that may already hold rows; the handler is cut into steps at its         *)
(* awaits (request.json, the three data-store calls, each delivery).  The   *)
(* data store and the push endpoint are the environment: every call to      *)
(* them may succeed or return an error.                                     *)
(*                                                                         *)
(* The other handlers are followed the same way, each on a variable of     *)
(* its own and under a specification of its own: the direct-message POST   *)
(* (app/api/contact/route.ts) with its caller's retries, the auth GET      *)
(* (app/api/auth/route.ts) served concurrently or one request at a time,   *)
(* the apply POST (app/api/apply/route.ts) and ProfileEditor.handleSave    *)
(* (app/components/ProfileEditor.tsx).                                     *)
(*                                                                         *)
(* A JavaScript value that may be null/undefined is a sequence of length    *)
(* 0 (absent) or 1 (the value).                                             *)
(***************************************************************************)
EXTENDS Integers, Sequences, FiniteSets, TLC

(* ---------------------------- bounds ----------------------------------- *)

\* longest selectedSkillIds list a request may carry
MaxSkillIds == 2

\* most direct-message requests a caller submits, retries included
MaxContactRequests == 2

\* auth requests followed, each by its own invocation of GET
MaxAuthRequests == 2

\* times the user saves the profile editor
MaxSaves == 2

(* ------------------------- generic helpers ----------------------------- *)

Maybe(S) == {<<>>} \cup {<<x>> : x \in S}

SeqsUpTo(S, n) == UNION {[1..k -> S] : k \in 0..n}

Range(s) == {s[i] : i \in 1..Len(s)}

(* ---------------- the data store's pre-existing rows ------------------- *)

Skills == {"A", "B", "C"}

NumberFid(n) == [type |-> "number", nan |-> FALSE, val |-> n]

StringFid(n) == [type |-> "string", nan |-> FALSE, val |-> n]

NullFid == [type |-> "null", nan |-> FALSE, val |-> 0]

\* a string that is not a number, such as "abc"
NonNumericFid == [type |-> "string", nan |-> TRUE, val |-> 0]

\* profiles rows, keyed by profile id; the columns the matcher selects
Profiles ==
  [u \in {"U1", "U2", "U3", "U4", "U5", "U6", "U8"} |->
     CASE u = "U1" -> [fid |-> NumberFid(11), display_name |-> "one",   username |-> "u1"]
       [] u = "U2" -> [fid |-> NumberFid(12), display_name |-> "two",   username |-> "u2"]
       [] u = "U3" -> [fid |-> NumberFid(13), display_name |-> "three", username |-> "u3"]
       [] u = "U4" -> [fid |-> NullFid,       display_name |-> "four",  username |-> "u4"]
       [] u = "U5" -> [fid |-> StringFid(15), display_name |-> "five",  username |-> "u5"]
       [] u = "U6" -> [fid |-> NumberFid(11), display_name |-> "six",   username |-> "u6"]
       [] u = "U8" -> [fid |-> NonNumericFid, display_name |-> "eight", username |-> "u8"]]

\* user_skills rows in user_id order (the matcher query orders by user_id);
\* U7 has a skill row but no profile row
UserSkills ==
  << [user_id |-> "U1", skill_id |-> "A"],
     [user_id |-> "U2", skill_id |-> "A"],
     [user_id |-> "U2", skill_id |-> "B"],
     [user_id |-> "U3", skill_id |-> "C"],
     [user_id |-> "U4", skill_id |-> "B"],
     [user_id |-> "U5", skill_id |-> "A"],
     [user_id |-> "U6", skill_id |-> "C"],
     [user_id |-> "U7", skill_id |-> "B"],
     [user_id |-> "U8", skill_id |-> "C"] >>

(* ------------------------ request payloads ----------------------------- *)

\* jobData objects a caller sends
JobDataValues ==
  { [posterId |-> "U1", title |-> "t1", description |-> <<"d1">>,
     budgetAmount |-> <<"50">>, budgetCurrency |-> <<"USDC">>, deadline |-> <<"2025-07-01">>],
    [posterId |-> "U2", title |-> "t2", description |-> <<"d2">>,
     budgetAmount |-> <<>>, budgetCurrency |-> <<>>, deadline |-> <<>>],
    [posterId |-> "U3", title |-> "t1", description |-> <<>>,
     budgetAmount |-> <<"abc">>, budgetCurrency |-> <<"">>, deadline |-> <<"">>] }

PosterFidValues == {0, 11, 12}

Requests ==
  [jobData : Maybe(JobDataValues),
   selectedSkillIds : Maybe(SeqsUpTo(Skills, MaxSkillIds)),
   posterFid : Maybe(PosterFidValues)]

NoRequest == [jobData |-> <<>>, selectedSkillIds |-> <<>>, posterFid |-> <<>>]

(* --------------------- JavaScript value semantics ---------------------- *)

\* !x for a value that is an object or an array when present: only
\* null/undefined is falsy, an empty array is truthy
TruthyObject(m) == m # <<>>

\* !x for a number: null/undefined and 0 are falsy
TruthyNumber(m) == m # <<>> /\ m[1] # 0

\* !x for a string: null/undefined and "" are falsy
TruthyString(m) == m # <<>> /\ m[1] # ""

\* parseFloat on the strings the payloads carry; NaN is sent to the data
\* store as null
ParseFloat(s) == IF s = "50" THEN <<50>> ELSE <<>>

(* ------------------- lib/notification-client.ts ------------------------ *)

\* what the environment does during one sendFrameNotification call:
\* the notification-details lookup, the fetch, and the endpoint's answer
DeliveryEnvs ==
  [lookup : {"throws", "none", "found"},
   fetch : {"rejects", "responds"},
   jsonBody : BOOLEAN,
   status : {200, 400},
   wellFormed : BOOLEAN,
   rateLimitedTokens : 0..1]

\* the state sendFrameNotification resolves to, or "throw" when its promise
\* rejects (the lookup, the fetch or response.json() rejected)
SendFrameNotification(env) ==
  IF env.lookup = "throws" THEN "throw"
  ELSE IF env.lookup = "none" THEN "no_token"
  ELSE IF env.fetch = "rejects" THEN "throw"
  ELSE IF ~env.jsonBody THEN "throw"
  ELSE IF env.status = 200
       THEN IF ~env.wellFormed THEN "error"
            ELSE IF env.rateLimitedTokens > 0 THEN "rate_limit"
            ELSE "success"
       ELSE "error"

(* ----------------------- app/api/jobs/route.ts -------------------------- *)

VARIABLES
  jobs,                 \* the jobs table, in insertion order
  job_skills,           \* the job_skills table, in insertion order
  pc,                   \* the handler's position
  request,              \* { jobData, selectedSkillIds, posterFid } of the request
  newJob,               \* the row the jobs insert returned, if any
  jobInsertError,       \* the jobs insert returned an error
  jobSkillsInsertError, \* the job_skills insert returned an error
  matchingUsersError,   \* the matcher query returned an error
  matchingUsers,        \* the rows the matcher query returned, if any
  uniqueFidsToNotify,   \* the Set<number>, in insertion order
  inFlight,             \* the sendFrameNotification calls made and not yet settled
  attempts,             \* the loop iterations done: fid, whether the call was made, what was logged
  response,             \* the response returned, if any
  calls,                \* data-store calls made by this request, per table
  jobsBefore,           \* Len(jobs) when the request arrived
  jobSkillsBefore,      \* Len(job_skills) when the request arrived
  send,                 \* one sendFrameNotification call followed step by step
  contact,              \* the direct-message handler, its caller and the direct-cast API
  auth,                 \* the profiles table and the auth GET requests in progress
  apply,                \* the applications table and the apply POST request
  editor,               \* the user_skills table and ProfileEditor's handleSave
  twin                  \* what an earlier run of the job-posting handler did, if kept

\* the variables of the job-posting handler
jobVars == <<jobs, job_skills, pc, request, newJob, jobInsertError,
             jobSkillsInsertError, matchingUsersError, matchingUsers,
             uniqueFidsToNotify, inFlight, attempts, response, calls,
             jobsBefore, jobSkillsBefore>>

vars == <<jobVars, send, contact, auth, apply, editor, twin>>

\* what the job-posting handler leaves alone
notJobVars == <<send, contact, auth, apply, editor, twin>>

\* what sendFrameNotification leaves alone
notSendVars == <<jobVars, contact, auth, apply, editor, twin>>

\* what the direct-message handler leaves alone
notContactVars == <<jobVars, send, auth, apply, editor, twin>>

\* what the auth handler leaves alone
notAuthVars == <<jobVars, send, contact, apply, editor, twin>>

\* what the apply handler leaves alone
notApplyVars == <<jobVars, send, contact, auth, editor, twin>>

\* what a second run of the job-posting handler leaves alone
notTwinVars == <<send, contact, auth, apply, editor>>

\* what ProfileEditor leaves alone
notEditorVars == <<jobVars, send, contact, auth, apply, twin>>

dbVars == <<jobs, job_skills>>

NoCalls == [jobs |-> 0, job_skills |-> 0, user_skills |-> 0]

\* the skill list of the request ([] when absent)
SelectedSkillIds == IF request.selectedSkillIds = <<>> THEN <<>> ELSE request.selectedSkillIds[1]

\* line 20 with a defect: posterFid is not checked
MissingFieldNoPosterFid(r) ==
  \/ ~TruthyObject(r.jobData)
  \/ ~TruthyObject(r.selectedSkillIds)

\* line 20: !jobData || !selectedSkillIds || !posterFid
MissingField(r) ==
  \/ ~TruthyObject(r.jobData)
  \/ ~TruthyObject(r.selectedSkillIds)
  \/ ~TruthyNumber(r.posterFid)

\* lines 30-38 with a defect: the row is not inserted as open
JobRowNotOpen(jobData, id) ==
  [id |-> id,
   poster_id |-> jobData.posterId,
   title |-> jobData.title,
   description |-> jobData.description,
   budget_amount |-> IF TruthyString(jobData.budgetAmount)
                     THEN ParseFloat(jobData.budgetAmount[1]) ELSE <<>>,
   budget_currency |-> IF TruthyString(jobData.budgetCurrency)
                       THEN jobData.budgetCurrency ELSE <<>>,
   deadline |-> IF TruthyString(jobData.deadline) THEN jobData.deadline ELSE <<>>,
   status |-> "draft"]

\* lines 30-38 with a defect: the title is stored as the description
JobRowTitleAsDescription(jobData, id) ==
  [id |-> id,
   poster_id |-> jobData.posterId,
   title |-> jobData.title,
   description |-> <<jobData.title>>,
   budget_amount |-> IF TruthyString(jobData.budgetAmount)
                     THEN ParseFloat(jobData.budgetAmount[1]) ELSE <<>>,
   budget_currency |-> IF TruthyString(jobData.budgetCurrency)
                       THEN jobData.budgetCurrency ELSE <<>>,
   deadline |-> IF TruthyString(jobData.deadline) THEN jobData.deadline ELSE <<>>,
   status |-> "open"]

\* lines 30-38: the row handed to the jobs insert, with the id the store generates
JobRow(jobData, id) ==
  [id |-> id,
   poster_id |-> jobData.posterId,
   title |-> jobData.title,
   description |-> jobData.description,
   budget_amount |-> IF TruthyString(jobData.budgetAmount)
                     THEN ParseFloat(jobData.budgetAmount[1]) ELSE <<>>,
   budget_currency |-> IF TruthyString(jobData.budgetCurrency)
                       THEN jobData.budgetCurrency ELSE <<>>,
   deadline |-> IF TruthyString(jobData.deadline) THEN jobData.deadline ELSE <<>>,
   status |-> "open"]

\* lines 51-54 with a defect: every row carries the first skill id
JobSkillRowsFirstSkill(jobId, skillIds) ==
  [i \in 1..Len(skillIds) |-> [job_id |-> jobId, skill_id |-> skillIds[1]]]

\* lines 51-54: one job_skills row per element of selectedSkillIds
JobSkillRows(jobId, skillIds) ==
  [i \in 1..Len(skillIds) |-> [job_id |-> jobId, skill_id |-> skillIds[i]]]

\* the joined profiles value of a matcher row: the related row as an object
\* (or null), or as a collection, whichever shape the store answers in
JoinedProfile(userId, shape) ==
  LET found == IF userId \in DOMAIN Profiles THEN <<Profiles[userId]>> ELSE <<>>
  IN  IF shape = "array" THEN [kind |-> "array", items |-> found]
      ELSE IF found = <<>> THEN [kind |-> "null", items |-> <<>>]
      ELSE [kind |-> "object", items |-> found]

\* lines 64-69 with a defect: the skill filter is left out
MatcherQueryUnfiltered(skillIds, shape) ==
  [i \in 1..Len(UserSkills) |->
     [user_id |-> UserSkills[i].user_id,
      profiles |-> JoinedProfile(UserSkills[i].user_id, shape)]]

\* lines 64-69 with the filter .not('user_id', 'eq', jobData.posterId) that
\* the handler has commented out (line 68): the poster's rows are left out
MatcherQueryExcludingPoster(skillIds, shape) ==
  LET hits == SelectSeq(UserSkills, LAMBDA us :
                 /\ us.skill_id \in Range(skillIds)
                 /\ us.user_id # request.jobData[1].posterId)
  IN  [i \in 1..Len(hits) |->
         [user_id |-> hits[i].user_id,
          profiles |-> JoinedProfile(hits[i].user_id, shape)]]

\* lines 64-69: user_skills rows whose skill_id is in skillIds, joined to
\* profiles, ordered by user_id
MatcherQuery(skillIds, shape) ==
  LET hits == SelectSeq(UserSkills, LAMBDA us : us.skill_id \in Range(skillIds))
  IN  [i \in 1..Len(hits) |->
         [user_id |-> hits[i].user_id,
          profiles |-> JoinedProfile(hits[i].user_id, shape)]]

\* lines 76-83 with a defect: only the single-object shape is handled (an
\* array has no own 'fid' property)
CurrentFidObjectOnly(profileData) ==
  IF profileData.kind = "object"
  THEN profileData.items[1].fid
  ELSE NullFid

\* lines 76-83: the fid read from one row's profiles value
CurrentFid(profileData) ==
  IF profileData.kind = "array" /\ Len(profileData.items) > 0
  THEN profileData.items[1].fid
  ELSE IF profileData.kind = "object"
  THEN profileData.items[1].fid
  ELSE NullFid

\* line 85 with a defect: only !isNaN(currentFid) is tested, which null and
\* numeric strings pass
IsValidNumberNoTypeof(f) == ~f.nan

\* line 85: typeof currentFid === 'number' && !isNaN(currentFid)
IsValidNumber(f) == f.type = "number" /\ ~f.nan

\* an array push in place of Set.add: a value already present is added again
SetAddAlways(s, x) == Append(s, x)

\* Set.add: keeps insertion order, ignores a value already present
SetAdd(s, x) == IF x \in Range(s) THEN s ELSE Append(s, x)

\* lines 74-88: the forEach over the matcher's rows
RECURSIVE CollectFids(_, _, _)
CollectFids(rows, i, acc) ==
  IF i > Len(rows) THEN acc
  ELSE LET f == CurrentFid(rows[i].profiles)
       IN  CollectFids(rows, i + 1,
                       IF IsValidNumber(f) THEN SetAdd(acc, f.val) ELSE acc)

UniqueFids(rows) == CollectFids(rows, 1, <<>>)

\* lines 104-111: what one loop iteration logs for a result
LogOf(result) ==
  IF result = "throw" THEN "unhandled"
  ELSE IF result = "error" THEN "failed"
  ELSE "sent"

\* no sendFrameNotification call is being followed
SendIdle ==
  [pc |-> "idle", fid |-> 0, details |-> <<>>, env |-> <<>>, fetches |-> 0,
   result |-> "none"]

\* no direct message has been submitted
ContactIdle ==
  [pc |-> "idle", request |-> [recipientFid |-> <<>>, messageText |-> <<>>],
   apiKey |-> TRUE, served |-> 0, keys |-> 0, outcome |-> "none",
   response |-> <<>>, seen |-> {}, delivered |-> <<>>, history |-> <<>>]

\* the invocations of the auth GET handler
AuthProcs == 1..MaxAuthRequests

\* an invocation that has not received its request
AuthProcIdle ==
  [pc |-> "idle", authHeader |-> "", token |-> "unverified",
   fid |-> 0, pfp_url |-> "", verified |-> FALSE,
   existingProfile |-> <<>>, dbCalls |-> 0, inserted |-> 0, response |-> <<>>]

\* no auth request has arrived and the profiles table holds no row;
\* uniqueFid says whether the store's schema declares profiles.fid unique
AuthIdle ==
  [uniqueFid |-> FALSE, started |-> 0, profiles |-> <<>>,
   procs |-> [p \in AuthProcs |-> AuthProcIdle], log |-> <<>>]

\* no application has been submitted and the applications table is empty
ApplyIdle ==
  [pc |-> "idle",
   request |-> [jobId |-> <<>>, applicantProfileId |-> <<>>,
                applicantFid |-> <<>>, applicationMessage |-> <<>>],
   job |-> <<>>, posterFid |-> NullFid, applicantName |-> "",
   appInsertError |-> FALSE, newApplication |-> <<>>,
   applications |-> <<>>, notified |-> <<>>, response |-> <<>>]

\* the editor is open on the profile of U3, nothing has been saved; the
\* user_skills table holds the rows of another user only
EditorIdle ==
  [pc |-> "idle", userId |-> "U3", saves |-> 0,
   user_skills |-> <<[user_id |-> "U2", skill_id |-> "A"],
                     [user_id |-> "U2", skill_id |-> "B"]>>,
   selectedSkillIds |-> {}, storedBefore |-> <<>>,
   currentSkillIds |-> {}, skillsToAdd |-> {}, skillsToRemove |-> {},
   insertedRows |-> <<>>, deletedRows |-> <<>>,
   profileUpdateError |-> FALSE, fetchCurrentError |-> FALSE,
   insertError |-> FALSE, deleteError |-> FALSE, saved |-> FALSE]

\* a job posted and tagged before the requests modelled here
EarlierJob ==
  [id |-> 1, poster_id |-> "U2", title |-> "t0", description |-> <<"d0">>,
   budget_amount |-> <<>>, budget_currency |-> <<>>, deadline |-> <<>>,
   status |-> "open"]

EarlierJobSkills == <<[job_id |-> 1, skill_id |-> "B"]>>

\* the tables are empty or hold the earlier job
Init ==
  /\ \/ jobs = <<>> /\ job_skills = <<>>
     \/ jobs = <<EarlierJob>> /\ job_skills = EarlierJobSkills
  /\ pc = "idle"
  /\ request = NoRequest
  /\ newJob = <<>>
  /\ jobInsertError = FALSE
  /\ jobSkillsInsertError = FALSE
  /\ matchingUsersError = FALSE
  /\ matchingUsers = <<>>
  /\ uniqueFidsToNotify = <<>>
  /\ inFlight = <<>>
  /\ attempts = <<>>
  /\ response = <<>>
  /\ calls = NoCalls
  /\ jobsBefore = 0
  /\ jobSkillsBefore = 0
  /\ send = SendIdle
  /\ contact = ContactIdle
  /\ auth = AuthIdle
  /\ apply = ApplyIdle
  /\ editor = EditorIdle
  /\ twin = <<>>

\* line 18: a request arrives and its body is destructured
ReceiveRequest ==
  /\ pc = "idle"
  /\ \E r \in Requests : request' = r
  /\ pc' = "validate"
  /\ newJob' = <<>>
  /\ jobInsertError' = FALSE
  /\ jobSkillsInsertError' = FALSE
  /\ matchingUsersError' = FALSE
  /\ matchingUsers' = <<>>
  /\ uniqueFidsToNotify' = <<>>
  /\ inFlight' = <<>>
  /\ attempts' = <<>>
  /\ response' = <<>>
  /\ calls' = NoCalls
  /\ jobsBefore' = Len(jobs)
  /\ jobSkillsBefore' = Len(job_skills)
  /\ UNCHANGED dbVars
  /\ UNCHANGED notJobVars

\* lines 20-22
Validate ==
  /\ pc = "validate"
  /\ IF MissingField(request)
     THEN /\ response' = <<[status |-> 400, jobId |-> <<>>]>>
          /\ pc' = "done"
     ELSE /\ pc' = "insertJob"
          /\ UNCHANGED response
  /\ UNCHANGED <<dbVars, request, newJob, jobInsertError, jobSkillsInsertError,
                 matchingUsersError, matchingUsers, uniqueFidsToNotify, inFlight,
                 attempts, calls, jobsBefore, jobSkillsBefore>>
  /\ UNCHANGED notJobVars

\* lines 28-45 with a defect: jobInsertError is not checked and the handler
\* goes on to the matcher
InsertJobContinue ==
  /\ pc = "insertJob"
  /\ calls' = [calls EXCEPT !.jobs = @ + 1]
  /\ \E ok \in BOOLEAN :
       IF ok
       THEN LET row == JobRow(request.jobData[1], Len(jobs) + 1)
            IN  /\ jobs' = Append(jobs, row)
                /\ newJob' = <<row>>
                /\ pc' = "insertSkills"
                /\ UNCHANGED <<jobInsertError, response>>
       ELSE /\ jobInsertError' = TRUE
            /\ pc' = "match"
            /\ UNCHANGED <<jobs, newJob, response>>
  /\ UNCHANGED <<job_skills, request, jobSkillsInsertError, matchingUsersError,
                 matchingUsers, uniqueFidsToNotify, inFlight, attempts,
                 jobsBefore, jobSkillsBefore>>
  /\ UNCHANGED notJobVars

\* lines 28-45 with a defect: a refused jobs insert is answered as a client
\* error
InsertJobClientError ==
  /\ pc = "insertJob"
  /\ calls' = [calls EXCEPT !.jobs = @ + 1]
  /\ \E ok \in BOOLEAN :
       IF ok
       THEN LET row == JobRow(request.jobData[1], Len(jobs) + 1)
            IN  /\ jobs' = Append(jobs, row)
                /\ newJob' = <<row>>
                /\ pc' = "insertSkills"
                /\ UNCHANGED <<jobInsertError, response>>
       ELSE /\ jobInsertError' = TRUE
            /\ response' = <<[status |-> 400, jobId |-> <<>>]>>
            /\ pc' = "done"
            /\ UNCHANGED <<jobs, newJob>>
  /\ UNCHANGED <<job_skills, request, jobSkillsInsertError, matchingUsersError,
                 matchingUsers, uniqueFidsToNotify, inFlight, attempts,
                 jobsBefore, jobSkillsBefore>>
  /\ UNCHANGED notJobVars

\* lines 28-45: the jobs insert, which the store accepts or refuses
InsertJob ==
  /\ pc = "insertJob"
  /\ calls' = [calls EXCEPT !.jobs = @ + 1]
  /\ \E ok \in BOOLEAN :
       IF ok
       THEN LET row == JobRow(request.jobData[1], Len(jobs) + 1)
            IN  /\ jobs' = Append(jobs, row)
                /\ newJob' = <<row>>
                /\ pc' = "insertSkills"
                /\ UNCHANGED <<jobInsertError, response>>
       ELSE /\ jobInsertError' = TRUE
            /\ response' = <<[status |-> 500, jobId |-> <<>>]>>
            /\ pc' = "done"
            /\ UNCHANGED <<jobs, newJob>>
  /\ UNCHANGED <<job_skills, request, jobSkillsInsertError, matchingUsersError,
                 matchingUsers, uniqueFidsToNotify, inFlight, attempts,
                 jobsBefore, jobSkillsBefore>>
  /\ UNCHANGED notJobVars

\* lines 48-60 with a defect: a job_skills error fails the request
InsertJobSkillsFatal ==
  /\ pc = "insertSkills"
  /\ IF Len(SelectedSkillIds) > 0
     THEN /\ calls' = [calls EXCEPT !.job_skills = @ + 1]
          /\ \E ok \in BOOLEAN :
               IF ok
               THEN /\ job_skills' = job_skills \o JobSkillRows(newJob[1].id, SelectedSkillIds)
                    /\ pc' = "match"
                    /\ UNCHANGED <<jobSkillsInsertError, response>>
               ELSE /\ jobSkillsInsertError' = TRUE
                    /\ response' = <<[status |-> 500, jobId |-> <<>>]>>
                    /\ pc' = "done"
                    /\ UNCHANGED job_skills
     ELSE /\ pc' = "match"
          /\ UNCHANGED <<calls, job_skills, jobSkillsInsertError, response>>
  /\ UNCHANGED <<jobs, request, newJob, jobInsertError, matchingUsersError,
                 matchingUsers, uniqueFidsToNotify, inFlight, attempts,
                 jobsBefore, jobSkillsBefore>>
  /\ UNCHANGED notJobVars

\* lines 48-60: the job_skills insert, skipped for an empty list; an error is
\* only logged
InsertJobSkills ==
  /\ pc = "insertSkills"
  /\ IF Len(SelectedSkillIds) > 0
     THEN /\ calls' = [calls EXCEPT !.job_skills = @ + 1]
          /\ \E ok \in BOOLEAN :
               IF ok
               THEN /\ job_skills' = job_skills \o JobSkillRows(newJob[1].id, SelectedSkillIds)
                    /\ UNCHANGED jobSkillsInsertError
               ELSE /\ jobSkillsInsertError' = TRUE
                    /\ UNCHANGED job_skills
     ELSE UNCHANGED <<calls, job_skills, jobSkillsInsertError>>
  /\ pc' = "match"
  /\ UNCHANGED <<jobs, request, newJob, jobInsertError, matchingUsersError,
                 matchingUsers, uniqueFidsToNotify, inFlight, attempts, response,
                 jobsBefore, jobSkillsBefore>>
  /\ UNCHANGED notJobVars

\* lines 64-90 with a defect: a matcher error fails the request
MatchFatal ==
  /\ pc = "match"
  /\ calls' = [calls EXCEPT !.user_skills = @ + 1]
  /\ \/ \E shape \in {"object", "array"} :
          LET rows == MatcherQuery(SelectedSkillIds, shape)
          IN  /\ matchingUsers' = <<rows>>
              /\ uniqueFidsToNotify' = UniqueFids(rows)
              /\ pc' = "notify"
              /\ UNCHANGED <<matchingUsersError, response>>
     \/ /\ matchingUsersError' = TRUE
        /\ response' = <<[status |-> 500, jobId |-> <<>>]>>
        /\ pc' = "done"
        /\ UNCHANGED <<matchingUsers, uniqueFidsToNotify>>
  /\ UNCHANGED <<dbVars, request, newJob, jobInsertError, jobSkillsInsertError,
                 inFlight, attempts, jobsBefore, jobSkillsBefore>>
  /\ UNCHANGED notJobVars

\* lines 64-90 with a defect: matchingUsersError is logged but the fan-out
\* runs all the same, on the rows of an unfiltered fallback
MatchErrorIgnored ==
  /\ pc = "match"
  /\ calls' = [calls EXCEPT !.user_skills = @ + 1]
  /\ \/ \E shape \in {"object", "array"} :
          LET rows == MatcherQuery(SelectedSkillIds, shape)
          IN  /\ matchingUsers' = <<rows>>
              /\ uniqueFidsToNotify' = UniqueFids(rows)
              /\ pc' = "notify"
              /\ UNCHANGED matchingUsersError
     \/ /\ matchingUsersError' = TRUE
        /\ uniqueFidsToNotify' = UniqueFids(MatcherQuery(SelectedSkillIds, "object"))
        /\ pc' = "notify"
        /\ UNCHANGED matchingUsers
  /\ UNCHANGED <<dbVars, request, newJob, jobInsertError, jobSkillsInsertError,
                 inFlight, attempts, response, jobsBefore, jobSkillsBefore>>
  /\ UNCHANGED notJobVars

\* lines 64-90 with a defect: the fid the request names as posterFid is
\* left out of the targets
MatchSkipsPosterFid ==
  /\ pc = "match"
  /\ calls' = [calls EXCEPT !.user_skills = @ + 1]
  /\ \/ \E shape \in {"object", "array"} :
          LET rows == MatcherQuery(SelectedSkillIds, shape)
          IN  /\ matchingUsers' = <<rows>>
              /\ uniqueFidsToNotify' = SelectSeq(UniqueFids(rows),
                                                 LAMBDA f : f # request.posterFid[1])
              /\ pc' = "notify"
              /\ UNCHANGED matchingUsersError
     \/ /\ matchingUsersError' = TRUE
        /\ pc' = "respond"
        /\ UNCHANGED <<matchingUsers, uniqueFidsToNotify>>
  /\ UNCHANGED <<dbVars, request, newJob, jobInsertError, jobSkillsInsertError,
                 inFlight, attempts, response, jobsBefore, jobSkillsBefore>>
  /\ UNCHANGED notJobVars

\* lines 64-90: the matcher query and, when it returned rows, the
\* deduplication of their fids
Match ==
  /\ pc = "match"
  /\ calls' = [calls EXCEPT !.user_skills = @ + 1]
  /\ \/ \E shape \in {"object", "array"} :
          LET rows == MatcherQuery(SelectedSkillIds, shape)
          IN  /\ matchingUsers' = <<rows>>
              /\ uniqueFidsToNotify' = UniqueFids(rows)
              /\ pc' = "notify"
              /\ UNCHANGED matchingUsersError
     \/ /\ matchingUsersError' = TRUE
        /\ pc' = "respond"
        /\ UNCHANGED <<matchingUsers, uniqueFidsToNotify>>
  /\ UNCHANGED <<dbVars, request, newJob, jobInsertError, jobSkillsInsertError,
                 inFlight, attempts, response, jobsBefore, jobSkillsBefore>>
  /\ UNCHANGED notJobVars

\* lines 96-112 with a defect: the loop stops at the first delivery that
\* did not log success
LoopDoneOnFailure ==
  \/ Len(attempts) = Len(uniqueFidsToNotify)
  \/ attempts # <<>> /\ attempts[Len(attempts)].log # "sent"

\* line 96: the for-of loop has gone through every element of the Set
LoopDone == Len(attempts) = Len(uniqueFidsToNotify)

\* the fid the loop is at
NextFid == uniqueFidsToNotify[Len(attempts) + 1]

\* lines 96-103 with a defect: the calls are not awaited one by one, the
\* next one is made while earlier ones are still pending
StartDeliveryNoAwait ==
  /\ pc = "notify"
  /\ Len(attempts) + Len(inFlight) < Len(uniqueFidsToNotify)
  /\ newJob[1].description # <<>>
  /\ inFlight' = Append(inFlight, [fid |-> uniqueFidsToNotify[Len(attempts) + Len(inFlight) + 1],
                                    title |-> newJob[1].title,
                                    targetJobId |-> newJob[1].id])
  /\ UNCHANGED <<dbVars, pc, request, newJob, jobInsertError, jobSkillsInsertError,
                 matchingUsersError, matchingUsers, uniqueFidsToNotify, attempts,
                 response, calls, jobsBefore, jobSkillsBefore>>
  /\ UNCHANGED notJobVars

\* lines 96-103: the next iteration builds its arguments and calls
\* sendFrameNotification; newJob.description.substring throws on a null
\* description, inside the try, before the call is made
StartDelivery ==
  /\ pc = "notify"
  /\ inFlight = <<>>
  /\ ~LoopDone
  /\ IF newJob[1].description = <<>>
     THEN /\ attempts' = Append(attempts, [fid |-> NextFid, invoked |-> FALSE, log |-> "unhandled"])
          /\ UNCHANGED inFlight
     ELSE /\ inFlight' = Append(inFlight, [fid |-> NextFid, title |-> newJob[1].title,
                                            targetJobId |-> newJob[1].id])
          /\ UNCHANGED attempts
  /\ UNCHANGED <<dbVars, pc, request, newJob, jobInsertError, jobSkillsInsertError,
                 matchingUsersError, matchingUsers, uniqueFidsToNotify, response,
                 calls, jobsBefore, jobSkillsBefore>>
  /\ UNCHANGED notJobVars

\* lines 98-111 with a defect: a delivery that did not log success is queued
\* once more for the same fid
FinishDeliveryRetry ==
  /\ pc = "notify"
  /\ inFlight # <<>>
  /\ \E env \in DeliveryEnvs :
       LET log == LogOf(SendFrameNotification(env))
           fid == inFlight[1].fid
           k == Len(attempts) + 1
       IN  /\ attempts' = Append(attempts, [fid |-> fid, invoked |-> TRUE, log |-> log])
           /\ IF log # "sent" /\ \A i \in 1..Len(attempts) : attempts[i].fid # fid
              THEN uniqueFidsToNotify' =
                     SubSeq(uniqueFidsToNotify, 1, k) \o <<fid>>
                       \o SubSeq(uniqueFidsToNotify, k + 1, Len(uniqueFidsToNotify))
              ELSE UNCHANGED uniqueFidsToNotify
  /\ inFlight' = Tail(inFlight)
  /\ UNCHANGED <<dbVars, pc, request, newJob, jobInsertError, jobSkillsInsertError,
                 matchingUsersError, matchingUsers, response,
                 calls, jobsBefore, jobSkillsBefore>>
  /\ UNCHANGED notJobVars

\* lines 98-111: the awaited call settles and the iteration logs its outcome
FinishDelivery ==
  /\ pc = "notify"
  /\ inFlight # <<>>
  /\ \E env \in DeliveryEnvs :
       attempts' = Append(attempts, [fid |-> inFlight[1].fid, invoked |-> TRUE,
                                     log |-> LogOf(SendFrameNotification(env))])
  /\ inFlight' = Tail(inFlight)
  /\ UNCHANGED <<dbVars, pc, request, newJob, jobInsertError, jobSkillsInsertError,
                 matchingUsersError, matchingUsers, uniqueFidsToNotify, response,
                 calls, jobsBefore, jobSkillsBefore>>
  /\ UNCHANGED notJobVars

\* line 115 with a defect: the response does not wait for the fan-out
RespondEarly ==
  /\ pc \in {"respond", "notify"}
  /\ response' = <<[status |-> 200, jobId |-> <<newJob[1].id>>]>>
  /\ pc' = "done"
  /\ UNCHANGED <<dbVars, request, newJob, jobInsertError, jobSkillsInsertError,
                 matchingUsersError, matchingUsers, uniqueFidsToNotify, inFlight,
                 attempts, calls, jobsBefore, jobSkillsBefore>>
  /\ UNCHANGED notJobVars

\* line 115: the success response, after the loop or after a matcher error
Respond ==
  /\ \/ pc = "respond"
     \/ pc = "notify" /\ inFlight = <<>> /\ LoopDone
  /\ response' = <<[status |-> 200, jobId |-> <<newJob[1].id>>]>>
  /\ pc' = "done"
  /\ UNCHANGED <<dbVars, request, newJob, jobInsertError, jobSkillsInsertError,
                 matchingUsersError, matchingUsers, uniqueFidsToNotify, inFlight,
                 attempts, calls, jobsBefore, jobSkillsBefore>>
  /\ UNCHANGED notJobVars

Next ==
  \/ ReceiveRequest
  \/ Validate
  \/ InsertJob
  \/ InsertJobSkills
  \/ Match
  \/ StartDelivery
  \/ FinishDelivery
  \/ Respond

Spec == Init /\ [][Next]_vars

(* ------- two runs of POST that differ in the value of posterFid -------- *)

\* the shape the matcher query answered in, when it returned a row
ShapeOf(users) ==
  IF users = <<>> \/ users[1] = <<>> THEN "none"
  ELSE IF users[1][1].profiles.kind = "array" THEN "array"
  ELSE "object"

\* what a finished run did, and what the data store did to it
RunSummary ==
  [request |-> request,
   status |-> response[1].status,
   newJob |-> newJob,
   jobSkills |-> SubSeq(job_skills, jobSkillsBefore + 1, Len(job_skills)),
   targets |-> Range(uniqueFidsToNotify),
   jobInsertError |-> jobInsertError,
   jobSkillsInsertError |-> jobSkillsInsertError,
   matchingUsersError |-> matchingUsersError,
   shape |-> ShapeOf(matchingUsers)]

\* the skill lists of the bodies run twice
TwinSkillLists == {<<>>, <<"A">>, <<"C">>, <<"A", "B">>, <<"C", "A">>, <<"B", "B">>}

\* line 18: the first of the two bodies arrives, with a non-zero posterFid
ReceiveFirst ==
  /\ ReceiveRequest
  /\ request'.selectedSkillIds \in Maybe(TwinSkillLists)
  /\ TruthyNumber(request'.posterFid)

\* line 18, a second time: the run that ended is kept, and the same body
\* but for another non-zero posterFid arrives with the tables as the first
\* run found them
ReceiveTwin ==
  /\ pc = "done"
  /\ twin = <<>>
  /\ TruthyNumber(request.posterFid)
  /\ \E v \in PosterFidValues \ {0, request.posterFid[1]} :
       request' = [request EXCEPT !.posterFid = <<v>>]
  /\ twin' = <<RunSummary>>
  /\ jobs' = SubSeq(jobs, 1, jobsBefore)
  /\ job_skills' = SubSeq(job_skills, 1, jobSkillsBefore)
  /\ pc' = "validate"
  /\ newJob' = <<>>
  /\ jobInsertError' = FALSE
  /\ jobSkillsInsertError' = FALSE
  /\ matchingUsersError' = FALSE
  /\ matchingUsers' = <<>>
  /\ uniqueFidsToNotify' = <<>>
  /\ inFlight' = <<>>
  /\ attempts' = <<>>
  /\ response' = <<>>
  /\ calls' = NoCalls
  /\ UNCHANGED <<jobsBefore, jobSkillsBefore>>
  /\ UNCHANGED notTwinVars

\* one run of the handler and then its twin
NextTwin ==
  \/ ReceiveFirst
  \/ Validate
  \/ InsertJob
  \/ InsertJobSkills
  \/ Match
  \/ StartDelivery
  \/ FinishDelivery
  \/ Respond
  \/ ReceiveTwin

SpecTwin == Init /\ [][NextTwin]_vars

(* ------------- lib/notification-client.ts, step by step ---------------- *)

\* fids a caller asks a notification for
SendFids == {11, 12}

\* lines 23-35: sendFrameNotification is called, with or without
\* notificationDetails; env is what the lookup and the endpoint will do
SendBegin ==
  /\ send.pc = "idle"
  /\ \E fid \in SendFids, passed \in BOOLEAN, env \in DeliveryEnvs :
       send' = [pc |-> "entered", fid |-> fid,
                details |-> IF passed THEN <<"token">> ELSE <<>>,
                env |-> <<env>>, fetches |-> 0, result |-> "none"]
  /\ UNCHANGED notSendVars

\* lines 36-38: without notificationDetails the stored details of the fid
\* are looked up
SendLookup ==
  /\ send.pc = "entered"
  /\ IF send.details # <<>>
     THEN send' = [send EXCEPT !.pc = "looked"]
     ELSE IF send.env[1].lookup = "throws"
          THEN send' = [send EXCEPT !.pc = "threw"]
          ELSE IF send.env[1].lookup = "found"
               THEN send' = [send EXCEPT !.pc = "looked", !.details = <<"token">>]
               ELSE send' = [send EXCEPT !.pc = "looked"]
  /\ UNCHANGED notSendVars

\* lines 39-41: no details, no request
SendNoToken ==
  /\ send.pc = "looked"
  /\ send.details = <<>>
  /\ send' = [send EXCEPT !.pc = "returned", !.result = "no_token"]
  /\ UNCHANGED notSendVars

\* lines 43-55: the POST to the details' url
SendFetch ==
  /\ send.pc = "looked"
  /\ send.details # <<>>
  /\ send' = [send EXCEPT !.fetches = @ + 1,
                          !.pc = IF send.env[1].fetch = "rejects" THEN "threw" ELSE "fetched"]
  /\ UNCHANGED notSendVars

\* line 57: the answer's body is parsed as JSON, whatever its status
SendParse ==
  /\ send.pc = "fetched"
  /\ send' = [send EXCEPT !.pc = IF send.env[1].jsonBody THEN "parsed" ELSE "threw"]
  /\ UNCHANGED notSendVars

\* lines 59-72 with a defect: rateLimitedTokens is not looked at
SendReturnNoRateLimit ==
  /\ send.pc = "parsed"
  /\ send' = [send EXCEPT !.pc = "returned",
                          !.result = IF send.env[1].status = 200
                                     THEN IF ~send.env[1].wellFormed THEN "error"
                                          ELSE "success"
                                     ELSE "error"]
  /\ UNCHANGED notSendVars

\* lines 59-72: the state returned for the parsed answer
SendReturn ==
  /\ send.pc = "parsed"
  /\ send' = [send EXCEPT !.pc = "returned",
                          !.result = IF send.env[1].status = 200
                                     THEN IF ~send.env[1].wellFormed THEN "error"
                                          ELSE IF send.env[1].rateLimitedTokens > 0
                                               THEN "rate_limit"
                                               ELSE "success"
                                     ELSE "error"]
  /\ UNCHANGED notSendVars

NextSend ==
  \/ SendBegin
  \/ SendLookup
  \/ SendNoToken
  \/ SendFetch
  \/ SendParse
  \/ SendReturn

SpecSend == Init /\ [][NextSend]_vars

(* -------------------- app/api/contact/route.ts ------------------------- *)

\* bodies a caller sends: { recipientFid, messageText }
ContactRequests ==
  [recipientFid : Maybe({0, 11, 12}), messageText : Maybe({"", "hi"})]

\* what happens to the PUT of lines 139-150 and to its answer:
\*   unreachable     the fetch rejects, the API never saw the request
\*   ok              the API took the cast and answered 200 with JSON
\*   okLost          the API took the cast, its answer never arrived (fetch rejects)
\*   okNotJson       the API took the cast, the 200's body is not JSON
\*   refused         the API answered 400 with JSON and took nothing
\*   refusedNotJson  the API answered an error whose body is not JSON
DirectCastOutcomes ==
  {"unreachable", "ok", "okLost", "okNotJson", "refused", "refusedNotJson"}

\* the API took the cast
Taken(outcome) == outcome \in {"ok", "okLost", "okNotJson"}

\* the direct-cast API, for a cast it takes: a cast whose idempotencyKey it
\* has seen is not delivered again
DirectCastApi(delivered, seen, cast) ==
  IF cast.idempotencyKey \in seen THEN delivered ELSE Append(delivered, cast)

\* line 148: uuidv4() is a value never produced before
Uuidv4(keys) == keys + 1

\* line 127: a body arrives; the caller submits a new message or the one
\* submitted before.  WARPCAST_API_KEY (line 121) is fixed with the first.
ContactReceive ==
  /\ contact.pc \in {"idle", "done"}
  /\ contact.served < MaxContactRequests
  /\ \E r \in ContactRequests, k \in BOOLEAN :
       contact' = [contact EXCEPT
                     !.pc = "validate",
                     !.request = r,
                     !.apiKey = IF contact.served = 0 THEN k ELSE @,
                     !.served = @ + 1,
                     !.outcome = "none",
                     !.response = <<>>,
                     !.history = Append(@, [recipientFid |-> r.recipientFid,
                                            messageText |-> r.messageText,
                                            status |-> 0])]
  /\ UNCHANGED notContactVars

\* the answer is returned and noted against the submission
ContactAnswer(c, status) ==
  [c EXCEPT !.pc = "done", !.response = <<status>>,
            !.history[Len(c.history)].status = status]

\* lines 129-131
ContactValidate ==
  /\ contact.pc = "validate"
  /\ contact' = IF ~TruthyNumber(contact.request.recipientFid)
                   \/ ~TruthyString(contact.request.messageText)
                THEN ContactAnswer(contact, 400)
                ELSE [contact EXCEPT !.pc = "config"]
  /\ UNCHANGED notContactVars

\* lines 133-136
ContactCheckKey ==
  /\ contact.pc = "config"
  /\ contact' = IF ~contact.apiKey
                THEN ContactAnswer(contact, 500)
                ELSE [contact EXCEPT !.pc = "fetch"]
  /\ UNCHANGED notContactVars

\* lines 139-150: the PUT with a fresh idempotencyKey, and what the API does
\* with it
ContactFetch ==
  /\ contact.pc = "fetch"
  /\ \E outcome \in DirectCastOutcomes :
       LET key == Uuidv4(contact.keys)
           cast == [recipientFid |-> contact.request.recipientFid[1],
                    message |-> contact.request.messageText[1],
                    idempotencyKey |-> key]
       IN contact' = [contact EXCEPT
                        !.pc = "fetched",
                        !.keys = key,
                        !.outcome = outcome,
                        !.delivered = IF Taken(outcome)
                                      THEN DirectCastApi(@, contact.seen, cast)
                                      ELSE @,
                        !.seen = IF Taken(outcome) THEN @ \cup {key} ELSE @]
  /\ UNCHANGED notContactVars

\* lines 152-164: 200 for an ok answer, the API's status for an error answer,
\* 500 when the fetch or response.json() rejected
ContactRespond ==
  /\ contact.pc = "fetched"
  /\ contact' = ContactAnswer(contact,
                   IF contact.outcome = "ok" THEN 200
                   ELSE IF contact.outcome = "refused" THEN 400
                   ELSE 500)
  /\ UNCHANGED notContactVars

NextContact ==
  \/ ContactReceive
  \/ ContactValidate
  \/ ContactCheckKey
  \/ ContactFetch
  \/ ContactRespond

SpecContact == Init /\ [][NextContact]_vars

(* ----------------------- app/api/auth/route.ts ------------------------- *)

\* fids the verified tokens carry (payload.sub)
AuthFids == {21, 22}

\* pfp_url values the identity service reports
PfpUrls == {"p1", "p2"}

\* the profiles rows with a given fid
ProfilesOf(profiles, fid) == {i \in 1..Len(profiles) : profiles[i].fid = fid}

\* the invocation returns: its answer is noted with what it did
AuthReturn(a, p, status, profileId) ==
  [a EXCEPT !.procs[p].pc = "done",
            !.procs[p].response = <<[status |-> status, profileId |-> profileId]>>,
            !.log = Append(@, [fid |-> a.procs[p].fid, status |-> status,
                               profileId |-> profileId,
                               inserted |-> a.procs[p].inserted])]

\* a step of invocation p that only moves it on
AuthGoto(a, p, to) == [a EXCEPT !.procs[p].pc = to]

\* line 39: a request arrives.  The schema of the store is fixed when the
\* first one does.
AuthReceive(p) ==
  /\ auth.procs[p].pc = "idle"
  /\ \E u \in BOOLEAN :
       auth' = [auth EXCEPT !.procs[p].pc = "header",
                            !.started = @ + 1,
                            !.uniqueFid = IF auth.started = 0 THEN u ELSE @]
  /\ UNCHANGED notAuthVars

\* a request arrives while no other is being served
AuthReceiveAlone(p) ==
  /\ \A q \in AuthProcs : auth.procs[q].pc \in {"idle", "done"}
  /\ AuthReceive(p)

\* lines 40-51: the Authorization header, then the host header
AuthCheckHeader(p) ==
  /\ auth.procs[p].pc = "header"
  /\ \E authHeader \in {"none", "Basic x", "Bearer t"}, host \in BOOLEAN :
       LET a == [auth EXCEPT !.procs[p].authHeader = authHeader]
       IN auth' = IF authHeader # "Bearer t" THEN AuthReturn(a, p, 401, <<>>)
                  ELSE IF ~host THEN AuthReturn(a, p, 400, <<>>)
                  ELSE AuthGoto(a, p, "verify")
  /\ UNCHANGED notAuthVars

\* lines 54-59 with a defect: the token's fid is used although verifyJwt
\* rejected the token
AuthVerifyTrustsToken(p) ==
  /\ auth.procs[p].pc = "verify"
  /\ \E outcome \in {"valid", "invalid", "fails"}, fid \in AuthFids :
       LET a == [auth EXCEPT !.procs[p].token = outcome]
       IN auth' = IF outcome = "fails" THEN AuthReturn(a, p, 500, <<>>)
                  ELSE [a EXCEPT !.procs[p].pc = "resolve",
                                 !.procs[p].fid = fid,
                                 !.procs[p].verified = TRUE]
  /\ UNCHANGED notAuthVars

\* lines 54-59 and 125-132: verifyJwt accepts the token and gives its fid,
\* rejects it as invalid, or fails otherwise
AuthVerify(p) ==
  /\ auth.procs[p].pc = "verify"
  /\ \E outcome \in {"valid", "invalid", "fails"}, fid \in AuthFids :
       LET a == [auth EXCEPT !.procs[p].token = outcome]
       IN auth' = IF outcome = "invalid" THEN AuthReturn(a, p, 401, <<>>)
                  ELSE IF outcome = "fails" THEN AuthReturn(a, p, 500, <<>>)
                  ELSE [a EXCEPT !.procs[p].pc = "resolve",
                                 !.procs[p].fid = fid,
                                 !.procs[p].verified = TRUE]
  /\ UNCHANGED notAuthVars

\* lines 61-65: resolveFarcasterUser gives the user's data or null
AuthResolve(p) ==
  /\ auth.procs[p].pc = "resolve"
  /\ \E found \in BOOLEAN, pfp \in PfpUrls :
       auth' = IF ~found THEN AuthReturn(auth, p, 404, <<>>)
               ELSE [auth EXCEPT !.procs[p].pc = "select", !.procs[p].pfp_url = pfp]
  /\ UNCHANGED notAuthVars

\* lines 68-72 with a defect: the select never finds the profile
AuthSelectFindsNothing(p) ==
  /\ auth.procs[p].pc = "select"
  /\ \E storeFails \in BOOLEAN :
       LET a == [auth EXCEPT !.procs[p].dbCalls = @ + 1]
       IN auth' = IF storeFails THEN AuthReturn(a, p, 500, <<>>)
                  ELSE AuthGoto(a, p, "insert")
  /\ UNCHANGED notAuthVars

\* lines 68-72 and the branch of lines 74, 94, 97, 99, 119: the select by
\* fid with .single(), which gives PGRST116 for no row and for several rows
AuthSelect(p) ==
  /\ auth.procs[p].pc = "select"
  /\ \E storeFails \in BOOLEAN :
       LET me == auth.procs[p]
           rows == ProfilesOf(auth.profiles, me.fid)
           a == [auth EXCEPT !.procs[p].dbCalls = @ + 1]
       IN auth' =
            IF storeFails THEN AuthReturn(a, p, 500, <<>>)
            ELSE IF Cardinality(rows) # 1 THEN AuthGoto(a, p, "insert")
            ELSE LET row == auth.profiles[CHOOSE i \in rows : TRUE]
                 IN IF row.pfp_url # me.pfp_url
                    THEN [a EXCEPT !.procs[p].pc = "update",
                                   !.procs[p].existingProfile = <<row>>]
                    ELSE AuthReturn(a, p, 200, <<row.id>>)
  /\ UNCHANGED notAuthVars

\* lines 77-93: the insert of the new profile; it fails when the store
\* fails, and when fid is declared unique and a row has this fid
AuthInsert(p) ==
  /\ auth.procs[p].pc = "insert"
  /\ \E storeFails \in BOOLEAN :
       LET me == auth.procs[p]
           id == Len(auth.profiles) + 1
           a == [auth EXCEPT !.procs[p].dbCalls = @ + 1]
       IN auth' =
            IF storeFails \/ (auth.uniqueFid /\ ProfilesOf(auth.profiles, me.fid) # {})
            THEN AuthReturn(a, p, 500, <<>>)
            ELSE AuthReturn([a EXCEPT !.profiles = Append(@, [id |-> id, fid |-> me.fid,
                                                              pfp_url |-> me.pfp_url]),
                                      !.procs[p].inserted = @ + 1],
                            p, 200, <<id>>)
  /\ UNCHANGED notAuthVars

\* lines 99-119: the pfp_url of the existing profile is brought up to date;
\* a failed update still answers 200 with the profile as it was read
AuthUpdate(p) ==
  /\ auth.procs[p].pc = "update"
  /\ \E storeFails \in BOOLEAN :
       LET me == auth.procs[p]
           id == me.existingProfile[1].id
           a == [auth EXCEPT !.procs[p].dbCalls = @ + 1]
       IN auth' =
            IF storeFails THEN AuthReturn(a, p, 200, <<id>>)
            ELSE AuthReturn([a EXCEPT !.profiles[id].pfp_url = me.pfp_url], p, 200, <<id>>)
  /\ UNCHANGED notAuthVars

\* auth requests served in any interleaving
NextAuth ==
  \E p \in AuthProcs :
    \/ AuthReceive(p)
    \/ AuthCheckHeader(p)
    \/ AuthVerify(p)
    \/ AuthResolve(p)
    \/ AuthSelect(p)
    \/ AuthInsert(p)
    \/ AuthUpdate(p)

SpecAuth == Init /\ [][NextAuth]_vars

\* auth requests served one after the other
NextAuthSequential ==
  \E p \in AuthProcs :
    \/ AuthReceiveAlone(p)
    \/ AuthCheckHeader(p)
    \/ AuthVerify(p)
    \/ AuthResolve(p)
    \/ AuthSelect(p)
    \/ AuthInsert(p)
    \/ AuthUpdate(p)

SpecAuthSequential == Init /\ [][NextAuthSequential]_vars

(* ----------------------- app/api/apply/route.ts ------------------------ *)

\* the jobs rows an application may name, with their posters: U1 has a
\* numeric fid, U4 a null one, U5 a numeric string, U8 a non-numeric
\* string, U7 no profiles row
ApplyJobs ==
  [j \in {"J1", "J2", "J3", "J4", "J5"} |->
     CASE j = "J1" -> [id |-> "J1", title |-> "t1", poster_id |-> "U1"]
       [] j = "J2" -> [id |-> "J2", title |-> "t2", poster_id |-> "U4"]
       [] j = "J3" -> [id |-> "J3", title |-> "t3", poster_id |-> "U5"]
       [] j = "J4" -> [id |-> "J4", title |-> "t4", poster_id |-> "U7"]
       [] j = "J5" -> [id |-> "J5", title |-> "t5", poster_id |-> "U8"]]

\* bodies a caller sends; J9 names no job
ApplyRequests ==
  [jobId : Maybe({"", "J1", "J2", "J3", "J4", "J5", "J9"}),
   applicantProfileId : Maybe({"", "U2"}),
   applicantFid : Maybe({0, 12}),
   applicationMessage : Maybe({"", "m"})]

\* line 18: !jobId || !applicantProfileId || !applicantFid
ApplyMissingField(r) ==
  \/ ~TruthyString(r.jobId)
  \/ ~TruthyString(r.applicantProfileId)
  \/ ~TruthyNumber(r.applicantFid)

\* lines 26-30: the job row with its poster's profile joined, if the job
\* exists
JobWithPoster(jobId, shape) ==
  IF jobId \in DOMAIN ApplyJobs
  THEN <<[id |-> jobId, title |-> ApplyJobs[jobId].title,
          poster_id |-> ApplyJobs[jobId].poster_id,
          profiles |-> JoinedProfile(ApplyJobs[jobId].poster_id, shape)]>>
  ELSE <<>>

\* lines 38-49: posterFid as read from job.profiles
PosterFidOf(profiles) ==
  IF profiles.kind = "null" THEN NullFid
  ELSE IF profiles.kind = "array"
       THEN IF Len(profiles.items) > 0 THEN profiles.items[1].fid ELSE NullFid
       ELSE profiles.items[1].fid

\* lines 68-73: the row the insert asks for
ApplicationRow(r, id) ==
  [id |-> id, job_id |-> r.jobId[1], applicant_profile_id |-> r.applicantProfileId[1],
   status |-> "applied",
   message |-> IF TruthyString(r.applicationMessage) THEN r.applicationMessage ELSE <<>>]

\* the handler returns
ApplyReturn(a, status, applicationId) ==
  [a EXCEPT !.pc = "done",
            !.response = <<[status |-> status, applicationId |-> applicationId]>>]

\* line 16: a request arrives and its body is destructured
ApplyReceive ==
  /\ apply.pc = "idle"
  /\ \E r \in ApplyRequests :
       apply' = [apply EXCEPT !.pc = "validate", !.request = r]
  /\ UNCHANGED notApplyVars

\* lines 18-20
ApplyValidate ==
  /\ apply.pc = "validate"
  /\ apply' = IF ApplyMissingField(apply.request)
              THEN ApplyReturn(apply, 400, <<>>)
              ELSE [apply EXCEPT !.pc = "getJob"]
  /\ UNCHANGED notApplyVars

\* lines 26-54 with a defect: posterFid is not tested
ApplyGetJobAnyFid ==
  /\ apply.pc = "getJob"
  /\ \E jobError \in BOOLEAN, shape \in {"object", "array"} :
       LET job == JobWithPoster(apply.request.jobId[1], shape)
       IN apply' =
            IF jobError \/ job = <<>>
            THEN ApplyReturn(apply, 404, <<>>)
            ELSE [apply EXCEPT !.pc = "getApplicant", !.job = job,
                               !.posterFid = PosterFidOf(job[1].profiles)]
  /\ UNCHANGED notApplyVars

\* lines 26-54: the job and its poster's fid; 404 without the job, 500
\* without a numeric fid
ApplyGetJob ==
  /\ apply.pc = "getJob"
  /\ \E jobError \in BOOLEAN, shape \in {"object", "array"} :
       LET job == JobWithPoster(apply.request.jobId[1], shape)
       IN apply' =
            IF jobError \/ job = <<>>
            THEN ApplyReturn(apply, 404, <<>>)
            ELSE IF ~IsValidNumber(PosterFidOf(job[1].profiles))
            THEN ApplyReturn([apply EXCEPT !.job = job,
                                           !.posterFid = PosterFidOf(job[1].profiles)],
                             500, <<>>)
            ELSE [apply EXCEPT !.pc = "getApplicant", !.job = job,
                               !.posterFid = PosterFidOf(job[1].profiles)]
  /\ UNCHANGED notApplyVars

\* lines 57-63: the applicant's name for the notification, with a default
\* when the profile is not found
ApplyGetApplicant ==
  /\ apply.pc = "getApplicant"
  /\ \E found \in BOOLEAN :
       apply' = [apply EXCEPT !.pc = "insert",
                   !.applicantName = IF found /\ apply.request.applicantProfileId[1] \in DOMAIN Profiles
                                     THEN Profiles[apply.request.applicantProfileId[1]].username
                                     ELSE "A Farlance User"]
  /\ UNCHANGED notApplyVars

\* lines 66-80 with a defect: a failed insert is not answered 500
ApplyInsertContinue ==
  /\ apply.pc = "insert"
  /\ \E appInsertError \in BOOLEAN :
       LET row == ApplicationRow(apply.request, Len(apply.applications) + 1)
       IN apply' =
            IF appInsertError
            THEN [apply EXCEPT !.pc = "notify", !.appInsertError = TRUE]
            ELSE [apply EXCEPT !.pc = "notify", !.newApplication = <<row>>,
                               !.applications = Append(@, row)]
  /\ UNCHANGED notApplyVars

\* lines 66-80: the applications insert; 500 when it fails
ApplyInsert ==
  /\ apply.pc = "insert"
  /\ \E appInsertError \in BOOLEAN :
       LET row == ApplicationRow(apply.request, Len(apply.applications) + 1)
       IN apply' =
            IF appInsertError
            THEN ApplyReturn([apply EXCEPT !.appInsertError = TRUE], 500, <<>>)
            ELSE [apply EXCEPT !.pc = "notify", !.newApplication = <<row>>,
                               !.applications = Append(@, row)]
  /\ UNCHANGED notApplyVars

\* lines 86-101: one sendFrameNotification call to the poster; whatever it
\* returns or throws is logged
ApplyNotify ==
  /\ apply.pc = "notify"
  /\ \E env \in DeliveryEnvs :
       apply' = [apply EXCEPT !.pc = "respond",
                   !.notified = Append(@, [fid |-> apply.posterFid.val,
                                           result |-> SendFrameNotification(env)])]
  /\ UNCHANGED notApplyVars

\* line 103, and lines 105-108 should newApplication be null
ApplyRespond ==
  /\ apply.pc = "respond"
  /\ apply' = IF apply.newApplication = <<>>
              THEN ApplyReturn(apply, 500, <<>>)
              ELSE ApplyReturn(apply, 200, <<apply.newApplication[1].id>>)
  /\ UNCHANGED notApplyVars

NextApply ==
  \/ ApplyReceive
  \/ ApplyValidate
  \/ ApplyGetJob
  \/ ApplyGetApplicant
  \/ ApplyInsert
  \/ ApplyNotify
  \/ ApplyRespond

SpecApply == Init /\ [][NextApply]_vars

(* ------------------- app/components/ProfileEditor.tsx ------------------ *)

\* the rows of a table that belong to a user
RowsOf(table, userId) == SelectSeq(table, LAMBDA row : row.user_id = userId)

\* the skill ids in a sequence of rows
SkillIdsOf(rows) == {rows[i].skill_id : i \in 1..Len(rows)}

\* line 141 with a defect: every selected skill is inserted
SkillsToAddAll(selected, current) == selected

\* line 141: the selected skills that are not stored
SkillsToAdd(selected, current) == {id \in selected : id \notin current}

\* line 142: the stored skills that are not selected
SkillsToRemove(selected, current) == {id \in current : id \notin selected}

\* a set of skill ids as rows of a user, one each
RowsFor(userId, ids) ==
  LET RECURSIVE Build(_)
      Build(S) == IF S = {} THEN <<>>
                  ELSE LET id == CHOOSE x \in S : TRUE
                       IN <<[user_id |-> userId, skill_id |-> id]>> \o Build(S \ {id})
  IN Build(ids)

\* lines 101-107: handleSave is called with the skills selected in the form
EditorSave ==
  /\ editor.pc = "idle"
  /\ editor.saves < MaxSaves
  /\ \E selected \in SUBSET Skills :
       editor' = [editor EXCEPT
                    !.pc = "updateProfile", !.saves = @ + 1,
                    !.selectedSkillIds = selected,
                    !.storedBefore = editor.user_skills,
                    !.currentSkillIds = {}, !.skillsToAdd = {}, !.skillsToRemove = {},
                    !.insertedRows = <<>>, !.deletedRows = <<>>,
                    !.profileUpdateError = FALSE, !.fetchCurrentError = FALSE,
                    !.insertError = FALSE, !.deleteError = FALSE, !.saved = FALSE]
  /\ UNCHANGED notEditorVars

\* lines 110-124: the profile update; a failure ends the save
EditorUpdateProfile ==
  /\ editor.pc = "updateProfile"
  /\ \E profileUpdateError \in BOOLEAN :
       editor' = IF profileUpdateError
                 THEN [editor EXCEPT !.pc = "idle", !.profileUpdateError = TRUE]
                 ELSE [editor EXCEPT !.pc = "fetchCurrent"]
  /\ UNCHANGED notEditorVars

\* lines 128-142: the stored skills are read and the two differences taken;
\* a failure ends the save
EditorFetchCurrent ==
  /\ editor.pc = "fetchCurrent"
  /\ \E fetchCurrentError \in BOOLEAN :
       LET current == SkillIdsOf(RowsOf(editor.user_skills, editor.userId))
       IN editor' =
            IF fetchCurrentError
            THEN [editor EXCEPT !.pc = "idle", !.fetchCurrentError = TRUE]
            ELSE [editor EXCEPT
                    !.pc = "insert",
                    !.currentSkillIds = current,
                    !.skillsToAdd = SkillsToAdd(editor.selectedSkillIds, current),
                    !.skillsToRemove = SkillsToRemove(editor.selectedSkillIds, current)]
  /\ UNCHANGED notEditorVars

\* lines 144-152: the insert of skillsToAdd, if any; a failure is reported
\* and the save goes on
EditorInsert ==
  /\ editor.pc = "insert"
  /\ IF editor.skillsToAdd = {}
     THEN editor' = [editor EXCEPT !.pc = "delete"]
     ELSE \E insertError \in BOOLEAN :
            LET rows == RowsFor(editor.userId, editor.skillsToAdd)
            IN editor' =
                 IF insertError
                 THEN [editor EXCEPT !.pc = "delete", !.insertError = TRUE]
                 ELSE [editor EXCEPT !.pc = "delete",
                                     !.user_skills = @ \o rows,
                                     !.insertedRows = rows]
  /\ UNCHANGED notEditorVars

\* lines 154-164: the delete of the user's rows with a skill of
\* skillsToRemove, if any; a failure is reported and the save goes on
EditorDelete ==
  /\ editor.pc = "delete"
  /\ IF editor.skillsToRemove = {}
     THEN editor' = [editor EXCEPT !.pc = "finish"]
     ELSE \E deleteError \in BOOLEAN :
            LET Hit(row) == row.user_id = editor.userId /\ row.skill_id \in editor.skillsToRemove
            IN editor' =
                 IF deleteError
                 THEN [editor EXCEPT !.pc = "finish", !.deleteError = TRUE]
                 ELSE [editor EXCEPT
                         !.pc = "finish",
                         !.user_skills = SelectSeq(@, LAMBDA row : ~Hit(row)),
                         !.deletedRows = SelectSeq(editor.user_skills, Hit)]
  /\ UNCHANGED notEditorVars

\* lines 166-174: success is announced and onSave is called
EditorFinish ==
  /\ editor.pc = "finish"
  /\ editor' = [editor EXCEPT !.pc = "idle", !.saved = TRUE]
  /\ UNCHANGED notEditorVars

NextEditor ==
  \/ EditorSave
  \/ EditorUpdateProfile
  \/ EditorFetchCurrent
  \/ EditorInsert
  \/ EditorDelete
  \/ EditorFinish

SpecEditor == Init /\ [][NextEditor]_vars

TypeOK ==
  /\ pc \in {"idle", "validate", "insertJob", "insertSkills", "match", "notify", "respond", "done"}
  /\ request \in Requests
  /\ Len(newJob) <= 1
  /\ Len(response) <= 1

(* ------------------------ properties of POST --------------------------- *)

Done == pc = "done"

Status == IF response = <<>> THEN 0 ELSE response[1].status

\* the positions in jobs of the rows with a given id
RowsWithId(id) == {i \in 1..Len(jobs) : jobs[i].id = id}

\* the 200 response carrying the id of the row the jobs insert returned
SuccessResponse == <<[status |-> 200, jobId |-> <<newJob[1].id>>]>>

\* all three fields of the body are there (not null, not undefined)
AllPresent(r) == r.jobData # <<>> /\ r.selectedSkillIds # <<>> /\ r.posterFid # <<>>

AttemptFids == {attempts[i].fid : i \in 1..Len(attempts)}

\* the fids sendFrameNotification has been called with in this request, in
\* call order, the call being awaited included
InvokedFids ==
  LET made == SelectSeq(attempts, LAMBDA a : a.invoked)
  IN  [i \in 1..Len(made) |-> made[i].fid]
      \o [i \in 1..Len(inFlight) |-> inFlight[i].fid]

\* the users holding at least one of the skills, read off the user_skills rows
Holders(skillIds) ==
  {UserSkills[i].user_id : i \in {k \in 1..Len(UserSkills) :
                                    UserSkills[k].skill_id \in Range(skillIds)}}

\* the numeric fids of the profiles of a set of users
NumericFids(users) ==
  {Profiles[u].fid.val : u \in {v \in users \cap DOMAIN Profiles :
                                  Profiles[v].fid.type = "number" /\ ~Profiles[v].fid.nan}}

\* C1: a request with jobData, a non-empty selectedSkillIds and posterFid
\* whose jobs insert succeeded has added exactly one row to jobs, that row
\* has status "open" and is the only row with its id, and once the request
\* is answered the answer is 200 with that row's id as jobId.
C1_OneOpenJobAndItsId ==
  (AllPresent(request) /\ Len(SelectedSkillIds) > 0 /\ newJob # <<>>) =>
    /\ Len(jobs) = jobsBefore + 1
    /\ jobs[Len(jobs)] = newJob[1]
    /\ jobs[Len(jobs)].status = "open"
    /\ RowsWithId(newJob[1].id) = {Len(jobs)}
    /\ Done => response = <<[status |-> 200, jobId |-> <<jobs[Len(jobs)].id>>]>>

C1_Witness ==
  /\ Done /\ Status = 200
  /\ Len(SelectedSkillIds) > 0
  /\ jobsBefore = 1 /\ Len(jobs) = 2
  /\ response[1].jobId = <<2>>

\* C2: a request in which jobData, selectedSkillIds or posterFid is missing
\* never gets past validation: it is answered 400, and no jobs row, no
\* job_skills row, no data-store call and no notification attempt is made.
C2_MissingFieldRejected ==
  (pc # "idle" /\ ~AllPresent(request)) =>
    /\ pc \in {"validate", "done"}
    /\ Done => response = <<[status |-> 400, jobId |-> <<>>]>>
    /\ Len(jobs) = jobsBefore
    /\ Len(job_skills) = jobSkillsBefore
    /\ calls = NoCalls
    /\ attempts = <<>>
    /\ inFlight = <<>>

C2_Witness ==
  /\ Done /\ Status = 400
  /\ request.jobData # <<>>
  /\ request.selectedSkillIds # <<>> /\ Len(SelectedSkillIds) > 0
  /\ request.posterFid = <<>>

\* C3: a request with selectedSkillIds = [] (jobData and a non-zero posterFid
\* present) creates no jobs row and is answered with the client error 400.
\* (Read in the claim's favour: an answer given after the store refused the
\* jobs insert is not counted against it.)
C3_EmptySkillListRejected ==
  (pc # "idle" /\ request.jobData # <<>> /\ request.selectedSkillIds = << <<>> >>
     /\ TruthyNumber(request.posterFid)) =>
    /\ Len(jobs) = jobsBefore
    /\ (Done /\ ~jobInsertError) => Status = 400

\* C4: within one request sendFrameNotification is called at most once per
\* fid, and no fid gets two loop iterations, however many matcher rows carry
\* that fid.
C4_AtMostOncePerFid ==
  /\ \A i, j \in 1..Len(InvokedFids) : InvokedFids[i] = InvokedFids[j] => i = j
  /\ \A i, j \in 1..Len(attempts) : attempts[i].fid = attempts[j].fid => i = j

\* user U2 holds both required skills, so the matcher returned two rows for
\* fid 12, and the call for fid 12 was made
C4_Witness ==
  /\ Done /\ Status = 200
  /\ matchingUsers # <<>>
  /\ Cardinality({i \in 1..Len(matchingUsers[1]) : matchingUsers[1][i].user_id = "U2"}) = 2
  /\ \E i \in 1..Len(attempts) : attempts[i].fid = 12 /\ attempts[i].invoked

\* C5: when the matcher query has returned its rows, the fids a notification
\* is attempted for are numeric fids of users holding at least one required
\* skill, each attempted once, and when the request is answered they are all
\* of them.  (An attempt is one iteration of the fan-out loop.)
C5_TargetsAreTheSkillHolders ==
  (pc \in {"notify", "done"} /\ matchingUsers # <<>>) =>
    LET targets == NumericFids(Holders(SelectedSkillIds))
    IN  /\ AttemptFids \subseteq targets
        /\ Len(attempts) = Cardinality(AttemptFids)
        /\ Done => AttemptFids = targets

\* skills {A, B}: U1 (fid 11) has A, U2 (fid 12) has A and B, U3 (fid 13) has
\* neither: two attempts, to 11 and 12
C5_Witness ==
  /\ Done /\ Status = 200
  /\ Range(SelectedSkillIds) = {"A", "B"}
  /\ Len(attempts) = 2
  /\ AttemptFids = {11, 12}

\* C6: once the job_skills insert has returned an error, the jobs row of the
\* request is still in the table, no job_skills row was added, the handler
\* goes on to the matcher and the fan-out, and the answer is 200 with the
\* job id.
C6_JobSkillsErrorTolerated ==
  jobSkillsInsertError =>
    /\ newJob # <<>>
    /\ Len(jobs) = jobsBefore + 1 /\ jobs[Len(jobs)] = newJob[1]
    /\ Len(job_skills) = jobSkillsBefore
    /\ pc \in {"match", "notify", "respond", "done"}
    /\ Done => /\ response = SuccessResponse
               /\ calls.user_skills = 1
               /\ matchingUsers # <<>> =>
                    /\ Len(attempts) = Len(uniqueFidsToNotify)
                    /\ AttemptFids = NumericFids(Holders(SelectedSkillIds))

C6_Witness ==
  /\ Done /\ jobSkillsInsertError
  /\ Status = 200
  /\ Len(attempts) >= 1
  /\ \E i \in 1..Len(attempts) : attempts[i].invoked

\* C7: when a delivery of the fan-out failed (the call resolved to "error",
\* or the iteration threw), every fid of the deduplicated set has still had
\* its attempt by the time the request is answered, in the set's order, and
\* the answer is 200.
C7_FailureIsolation ==
  (Done /\ \E i \in 1..Len(attempts) : attempts[i].log \in {"failed", "unhandled"}) =>
    /\ Len(attempts) = Len(uniqueFidsToNotify)
    /\ \A i \in 1..Len(attempts) : attempts[i].fid = uniqueFidsToNotify[i]
    /\ response = SuccessResponse

\* the first delivery failed, the second threw, and a third was still made
C7_Witness ==
  /\ Done
  /\ Len(attempts) = 3
  /\ attempts[1].log = "failed"
  /\ attempts[2].log = "unhandled" /\ attempts[2].invoked
  /\ attempts[3].log = "sent"

C9_JobInsertErrorIsFatal ==
  jobInsertError =>
    /\ Done
    /\ response = <<[status |-> 500, jobId |-> <<>>]>>
    /\ newJob = <<>>
    /\ Len(jobs) = jobsBefore
    /\ Len(job_skills) = jobSkillsBefore
    /\ calls = [jobs |-> 1, job_skills |-> 0, user_skills |-> 0]
    /\ attempts = <<>>
    /\ inFlight = <<>>

C9_Witness ==
  /\ Done /\ jobInsertError
  /\ Status = 500
  /\ Len(SelectedSkillIds) > 0

\* C10: the jobId of a 200 response identifies exactly one jobs row, and
\* that row's title and description are the request's jobData.title and
\* jobData.description.
C10_RoundTrip ==
  (Done /\ Status = 200) =>
    /\ response[1].jobId # <<>>
    /\ Cardinality(RowsWithId(response[1].jobId[1])) = 1
    /\ \A i \in RowsWithId(response[1].jobId[1]) :
         /\ jobs[i].title = request.jobData[1].title
         /\ jobs[i].description = request.jobData[1].description

C10_Witness ==
  /\ Done /\ Status = 200
  /\ jobsBefore = 1
  /\ request.jobData[1].title = "t2"
  /\ \E i \in RowsWithId(response[1].jobId[1]) :
       jobs[i].title = "t2" /\ jobs[i].description = <<"d2">>

\* the fid of the profile whose id is jobData.posterId
PosterProfileFid == Profiles[request.jobData[1].posterId].fid

RequiredFieldMissing(r) ==
  \/ r.jobData = <<>>
  \/ r.selectedSkillIds = <<>>
  \/ r.posterFid = <<>>
  \/ r.posterFid = <<0>>

AddedJobSkills == SubSeq(job_skills, jobSkillsBefore + 1, Len(job_skills))

\* C13: the job_skills rows a request adds are none (before the insert, when
\* it is skipped or refused) or exactly one row per element of
\* selectedSkillIds, in order, each with the id of the jobs row this request
\* created and that element as skill_id; the rows that were there before are
\* untouched.
C13_JobSkillRowsOfThisJob ==
  pc # "idle" =>
  /\ SubSeq(job_skills, 1, jobSkillsBefore) \in {<<>>, EarlierJobSkills}
  /\ \A i \in 1..Len(AddedJobSkills) :
       /\ newJob # <<>>
       /\ AddedJobSkills[i].job_id = newJob[1].id
       /\ RowsWithId(AddedJobSkills[i].job_id) = {Len(jobs)}
       /\ AddedJobSkills[i].skill_id \in Range(SelectedSkillIds)
  /\ Len(AddedJobSkills) \in {0, Len(SelectedSkillIds)}
  /\ AddedJobSkills # <<>> =>
       \A i \in 1..Len(SelectedSkillIds) : AddedJobSkills[i].skill_id = SelectedSkillIds[i]
  /\ (pc \in {"match", "notify", "respond"} \/ (Done /\ Status = 200)) =>
       (Len(AddedJobSkills) = Len(SelectedSkillIds) <=> ~jobSkillsInsertError)

\* two rows were added for the second job, one per skill
C13_Witness ==
  /\ Done /\ Status = 200
  /\ jobsBefore = 1
  /\ SelectedSkillIds = <<"C", "A">>
  /\ AddedJobSkills = <<[job_id |-> 2, skill_id |-> "C"], [job_id |-> 2, skill_id |-> "A"]>>

\* C14: once the matcher query has returned an error, no notification is
\* attempted for any fid (no loop iteration, no call awaited, no target
\* collected) and the request is answered 200 with the job id.
C14_MatcherErrorTolerated ==
  matchingUsersError =>
    /\ matchingUsers = <<>>
    /\ uniqueFidsToNotify = <<>>
    /\ attempts = <<>>
    /\ inFlight = <<>>
    /\ pc \in {"respond", "done"}
    /\ Done => response = SuccessResponse

\* the job_skills rows went in, the matcher failed although U1 and U2 hold
\* the required skill, and the answer is 200
C14_Witness ==
  /\ Done /\ matchingUsersError
  /\ ~jobSkillsInsertError
  /\ SelectedSkillIds = <<"A">>
  /\ Status = 200 /\ response[1].jobId = <<newJob[1].id>>

\* the handler has started a notification (a loop iteration done or a call
\* awaited)
NotificationStarted == attempts # <<>> \/ inFlight # <<>>

\* C15: the steps come in the order validation, jobs insert, job_skills
\* insert, matcher query, deduplication, notification, response.  Each step
\* has happened only if the ones before it have: the jobs insert only for a
\* validated body, the job_skills insert only after a successful jobs
\* insert, the matcher query only after the job_skills insert was made or
\* skipped, a notification only after the jobs insert succeeded and the
\* matcher returned its rows, and the 200 only when every target has had its
\* attempt and no call is pending.
C15_StepOrder ==
  /\ calls.jobs > 0 => (pc \notin {"idle", "validate"} /\ ~MissingField(request))
  /\ calls.job_skills > 0 => (calls.jobs = 1 /\ newJob # <<>>)
  /\ calls.user_skills > 0 =>
       /\ newJob # <<>>
       /\ calls.job_skills = (IF Len(SelectedSkillIds) > 0 THEN 1 ELSE 0)
  /\ matchingUsers # <<>> => calls.user_skills = 1
  /\ uniqueFidsToNotify # <<>> =>
       (matchingUsers # <<>> /\ uniqueFidsToNotify = UniqueFids(matchingUsers[1]))
  /\ NotificationStarted =>
       /\ calls.jobs = 1 /\ newJob # <<>> /\ ~jobInsertError
       /\ calls.user_skills = 1 /\ matchingUsers # <<>>
       /\ response = <<>> \/ inFlight = <<>>
  /\ response # <<>> =>
       /\ inFlight = <<>>
       /\ (Status = 200 /\ matchingUsers # <<>>) => Len(attempts) = Len(uniqueFidsToNotify)
       /\ Status = 200 => calls.user_skills = 1

\* a request answered after three deliveries, the last of which was made
C15_Witness ==
  /\ Done /\ Status = 200
  /\ calls = [jobs |-> 1, job_skills |-> 1, user_skills |-> 1]
  /\ Len(attempts) = 3 /\ Len(uniqueFidsToNotify) = 3
  /\ attempts[3].invoked

\* C16: the fan-out is sequential: at most one sendFrameNotification call is
\* pending at any time, and while the call for a target is pending every
\* target before it in the set has had its iteration finished and none
\* after it has been started.
C16_SequentialFanOut ==
  /\ Len(inFlight) <= 1
  /\ inFlight # <<>> =>
       /\ Len(attempts) < Len(uniqueFidsToNotify)
       /\ inFlight[1].fid = uniqueFidsToNotify[Len(attempts) + 1]
  /\ \A i \in 1..Len(attempts) : attempts[i].fid = uniqueFidsToNotify[i]

\* the second call is pending after the first one returned
C16_Witness ==
  /\ pc = "notify"
  /\ Len(uniqueFidsToNotify) >= 2
  /\ Len(attempts) = 1 /\ attempts[1].invoked
  /\ Len(inFlight) = 1 /\ inFlight[1].fid = uniqueFidsToNotify[2]

\* how many loop iterations and pending calls a fid has had in this request
TimesTried(f) ==
  Cardinality({i \in 1..Len(attempts) : attempts[i].fid = f})
    + Cardinality({i \in 1..Len(inFlight) : inFlight[i].fid = f})

\* C17: nothing is retried within a request: the jobs insert, the job_skills
\* insert and the matcher query are each made at most once, also after they
\* returned an error, and a fid whose delivery failed or threw has had that
\* one try only.
C17_NoRetry ==
  /\ calls.jobs <= 1 /\ calls.job_skills <= 1 /\ calls.user_skills <= 1
  /\ jobInsertError => calls.jobs = 1
  /\ jobSkillsInsertError => calls.job_skills = 1
  /\ matchingUsersError => calls.user_skills = 1
  /\ \A i \in 1..Len(attempts) :
       attempts[i].log \in {"failed", "unhandled"} => TimesTried(attempts[i].fid) = 1

\* the first delivery failed and the loop went on to the other two fids
C17_Witness ==
  /\ Done /\ Status = 200
  /\ Len(attempts) = 3
  /\ attempts[1].log = "failed" /\ attempts[1].fid = 11
  /\ attempts[2].fid = 12 /\ attempts[3].fid = 13

\* the users of the rows the matcher returned
RowUsers == {matchingUsers[1][i].user_id : i \in 1..Len(matchingUsers[1])}

\* a row's fid cannot be read as a number: the profile is missing, or its fid
\* is null, NaN or a non-numeric value
Unparseable(u) ==
  \/ u \notin DOMAIN Profiles
  \/ Profiles[u].fid.type = "null"
  \/ Profiles[u].fid.nan

\* C18: when the matcher's rows include rows whose fid cannot be read as a
\* number, the deduplication raises no error (the handler goes on to the
\* fan-out and answers 200), every target it collects is the fid of a row
\* that can be read as a number, and every numeric fid of the other rows is
\* collected.
C18_UnparseableFidDropped ==
  (matchingUsers # <<>> /\ \E u \in RowUsers : Unparseable(u)) =>
    /\ pc \in {"notify", "done"}
    /\ Done => Status = 200
    /\ Range(uniqueFidsToNotify) \subseteq
         {Profiles[u].fid.val : u \in {v \in RowUsers : ~Unparseable(v)}}
    /\ NumericFids(RowUsers) \subseteq Range(uniqueFidsToNotify)

\* skills {B, C}: the rows of U4 (null fid), U7 (no profile) and U8 ("abc")
\* give no target, the rows of U2, U3 and U6 give 12, 13 and 11
C18_Witness ==
  /\ Done /\ Status = 200
  /\ matchingUsers # <<>>
  /\ {"U4", "U7", "U8"} \subseteq RowUsers
  /\ uniqueFidsToNotify = <<12, 13, 11>>
  /\ Len(attempts) = 3

\* collections of up to two related profiles, as a join could deliver them
ProfileCollections == SeqsUpTo({Profiles["U1"], Profiles["U2"], Profiles["U4"]}, 2)

\* C19: the deduplicated targets are the same whether the matcher's rows
\* carry the related profile as a single object or as a collection holding
\* it; of a collection only the first element's fid is read, and an empty
\* collection gives no fid.
C19_ShapeIndependent ==
  /\ matchingUsers # <<>> =>
       /\ uniqueFidsToNotify = UniqueFids(MatcherQuery(SelectedSkillIds, "object"))
       /\ uniqueFidsToNotify = UniqueFids(MatcherQuery(SelectedSkillIds, "array"))
  /\ pc = "notify" =>
       \A items \in ProfileCollections :
         CurrentFid([kind |-> "array", items |-> items])
           = IF items = <<>> THEN NullFid ELSE items[1].fid

\* the rows came as collections, U7's being empty, and fid 12 was collected
C19_Witness ==
  /\ Done /\ Status = 200
  /\ SelectedSkillIds = <<"B">>
  /\ matchingUsers # <<>>
  /\ \A i \in 1..Len(matchingUsers[1]) : matchingUsers[1][i].profiles.kind = "array"
  /\ \E i \in 1..Len(matchingUsers[1]) : matchingUsers[1][i].profiles.items = <<>>
  /\ uniqueFidsToNotify = <<12>>

(* ----------------- properties of sendFrameNotification ------------------ *)

SendEnded == send.pc \in {"returned", "threw"}

\* the endpoint was asked and answered with this status
Answered(status) ==
  /\ send.details # <<>>
  /\ send.env[1].fetch = "responds"
  /\ send.env[1].status = status

\* the answer's body is JSON of the response schema
WellFormedBody == send.env[1].jsonBody /\ send.env[1].wellFormed

\* C20 as stated: a call that has ended returned "no_token", without any
\* HTTP request, when no details exist for the fid; "success" on a 200 with
\* a well-formed body and no rate-limited token; "rate_limit" on a 200 with
\* a well-formed body and a rate-limited token; "error" on a 200 with a
\* malformed body and on any other status.
C20_FourOutcomes ==
  (SendEnded /\ send.env[1].lookup # "throws") =>
    /\ send.details = <<>> =>
         (send.pc = "returned" /\ send.result = "no_token" /\ send.fetches = 0)
    /\ (Answered(200) /\ WellFormedBody /\ send.env[1].rateLimitedTokens = 0) =>
         (send.pc = "returned" /\ send.result = "success")
    /\ (Answered(200) /\ WellFormedBody /\ send.env[1].rateLimitedTokens > 0) =>
         (send.pc = "returned" /\ send.result = "rate_limit")
    /\ ((Answered(200) /\ ~WellFormedBody) \/ Answered(400)) =>
         (send.pc = "returned" /\ send.result = "error")

\* C20 as the client behaves: the same, except that the body is parsed as
\* JSON before the status is looked at, so "error" is returned only for an
\* answer whose body is JSON (a 200 failing the schema, or another status);
\* for an answer whose body is not JSON the call throws and returns none of
\* the four.  A call that returns has made one HTTP request, or none for
\* "no_token", and when the details it used are those the lookup
\* gives it ends as SendFrameNotification(env) says.
C20_FourOutcomesForJsonAnswers ==
  (SendEnded /\ send.env[1].lookup # "throws") =>
    /\ send.details = <<>> =>
         (send.pc = "returned" /\ send.result = "no_token" /\ send.fetches = 0)
    /\ (Answered(200) /\ WellFormedBody /\ send.env[1].rateLimitedTokens = 0) =>
         (send.pc = "returned" /\ send.result = "success")
    /\ (Answered(200) /\ WellFormedBody /\ send.env[1].rateLimitedTokens > 0) =>
         (send.pc = "returned" /\ send.result = "rate_limit")
    /\ (send.env[1].jsonBody /\ ((Answered(200) /\ ~send.env[1].wellFormed) \/ Answered(400))) =>
         (send.pc = "returned" /\ send.result = "error")
    /\ (~send.env[1].jsonBody /\ (Answered(200) \/ Answered(400))) =>
         (send.pc = "threw" /\ send.result = "none" /\ send.fetches = 1)
    /\ send.pc = "returned" =>
         /\ send.result \in {"no_token", "success", "rate_limit", "error"}
         /\ send.fetches = (IF send.result = "no_token" THEN 0 ELSE 1)
    /\ (send.details = <<>>) = (send.env[1].lookup = "none") =>
         SendFrameNotification(send.env[1])
           = (IF send.pc = "threw" THEN "throw" ELSE send.result)

\* the endpoint answered 400 with a body that is not JSON and the call threw
C20_Witness ==
  /\ send.pc = "threw"
  /\ send.env[1].lookup = "found" /\ send.env[1].fetch = "responds"
  /\ send.env[1].status = 400 /\ ~send.env[1].jsonBody
  /\ send.fetches = 1

(* ----------------- properties of the direct-message POST ---------------- *)

\* the casts delivered to f with text t
Casts(f, t) ==
  {i \in 1..Len(contact.delivered) :
     contact.delivered[i].recipientFid = f /\ contact.delivered[i].message = t}

\* the submissions of text t for f
Submissions(f, t) ==
  {i \in 1..Len(contact.history) :
     contact.history[i].recipientFid = <<f>> /\ contact.history[i].messageText = <<t>>}

\* every submission of t for f but the first one came after an attempt that
\* was not answered 200
OnlyRetried(f, t) ==
  \A i, j \in Submissions(f, t) : i < j => contact.history[i].status # 200

\* C21: a message submitted again only after attempts that failed or were
\* lost is delivered to its recipient at most once.
C21_RetriesDeliverOnce ==
  \A f \in {11, 12}, t \in {"hi"} :
    OnlyRetried(f, t) => Cardinality(Casts(f, t)) <= 1

(* --------------------- properties of the auth GET ----------------------- *)

\* C22: whatever the interleaving of auth requests, no fid has more than
\* one profiles row.
C22_OneProfilePerFid ==
  \A f \in AuthFids : Cardinality(ProfilesOf(auth.profiles, f)) <= 1

\* the answers 200 given for fid f, in the order they were given
Successes(f) ==
  {i \in 1..Len(auth.log) : auth.log[i].fid = f /\ auth.log[i].status = 200}

\* the first of them
FirstSuccess(f) == CHOOSE i \in Successes(f) : \A j \in Successes(f) : i <= j

\* C23: with auth requests served one after the other, the first request
\* answered 200 for a fid inserted exactly one profiles row, every later
\* request answered 200 for that fid inserted none and returned the
\* profile with the same id, and that fid has one row.
C23_GetOrCreateIdempotent ==
  \A f \in AuthFids :
    Successes(f) # {} =>
      /\ auth.log[FirstSuccess(f)].inserted = 1
      /\ \A i \in Successes(f) \ {FirstSuccess(f)} :
           /\ auth.log[i].inserted = 0
           /\ auth.log[i].profileId = auth.log[FirstSuccess(f)].profileId
      /\ Cardinality(ProfilesOf(auth.profiles, f)) = 1

\* two requests for the same fid were answered 200 one after the other
C23_Witness ==
  \E f \in AuthFids :
    /\ Cardinality(Successes(f)) >= 2
    /\ \E i \in Successes(f) : auth.log[i].inserted = 0

\* C24: an invocation has called the profiles table only with a token
\* that verifyJwt accepted; a request with no Authorization header, with
\* one that does not start with "Bearer ", or with a token verifyJwt
\* rejected as invalid is answered 401 and has made no call to the table.
C24_VerifiedBeforeProfiles ==
  \A p \in AuthProcs :
    LET me == auth.procs[p] IN
      /\ me.dbCalls > 0 => (me.token = "valid" /\ me.verified)
      /\ (me.pc = "done" /\ (me.authHeader \in {"none", "Basic x"} \/ me.token = "invalid")) =>
           /\ me.response[1].status = 401
           /\ me.dbCalls = 0 /\ me.inserted = 0

\* one request was answered 401 for its invalid token, another for its
\* missing header, and the table is as it was
C24_Witness ==
  \E p, q \in AuthProcs :
    /\ auth.procs[p].pc = "done" /\ auth.procs[p].token = "invalid"
    /\ auth.procs[p].response[1].status = 401
    /\ auth.procs[q].pc = "done" /\ auth.procs[q].authHeader = "none"
    /\ auth.procs[q].response[1].status = 401
    /\ auth.profiles = <<>>

(* --------------------- properties of the apply POST --------------------- *)

ApplyDone == apply.pc = "done"

ApplyStatus == IF apply.response = <<>> THEN 0 ELSE apply.response[1].status

\* the job the request names exists
ApplyJobExists == apply.request.jobId[1] \in DOMAIN ApplyJobs

\* the fid of the profile of the poster of the job the request names is a
\* number
ApplyPosterFidValid ==
  LET p == ApplyJobs[apply.request.jobId[1]].poster_id
  IN  p \in DOMAIN Profiles /\ Profiles[p].fid.type = "number" /\ ~Profiles[p].fid.nan

\* C25: an application row is inserted only for a request with jobId,
\* applicantProfileId and applicantFid, naming a job that exists and whose
\* poster's fid is a valid number; a request lacking a field is answered
\* 400, one naming no job 404, one whose job's poster has no valid fid 500,
\* each without an application row and without a notification.
C25_ApplyPreconditions ==
  /\ apply.applications # <<>> =>
       /\ ~ApplyMissingField(apply.request)
       /\ ApplyJobExists
       /\ ApplyPosterFidValid
  /\ ApplyDone =>
       IF ApplyMissingField(apply.request)
       THEN ApplyStatus = 400 /\ apply.applications = <<>> /\ apply.notified = <<>>
       ELSE IF ~ApplyJobExists
       THEN ApplyStatus = 404 /\ apply.applications = <<>> /\ apply.notified = <<>>
       ELSE IF ~ApplyPosterFidValid
       THEN ApplyStatus \in {404, 500} /\ apply.applications = <<>> /\ apply.notified = <<>>
       ELSE TRUE
  /\ (ApplyDone /\ apply.job # <<>> /\ ~IsValidNumber(apply.posterFid)) => ApplyStatus = 500

\* a request naming a job whose poster's fid is a numeric string was
\* answered 500
C25_Witness ==
  /\ ApplyDone
  /\ apply.request.jobId = <<"J3">>
  /\ ApplyStatus = 500
  /\ apply.applications = <<>> /\ apply.notified = <<>>

\* C26: at most one notification is attempted per request, and only once
\* the application row is inserted; a failed insert is followed by none;
\* when the row is inserted the answer is 200 with its id whatever the
\* notification returned or threw.
C26_NotifyOnceAfterInsert ==
  /\ Len(apply.notified) <= 1
  /\ apply.notified # <<>> =>
       /\ apply.newApplication # <<>>
       /\ apply.newApplication[1] \in Range(apply.applications)
       /\ ~apply.appInsertError
       /\ apply.notified[1].fid = Profiles[apply.job[1].poster_id].fid.val
  /\ apply.appInsertError =>
       /\ apply.notified = <<>>
       /\ ApplyDone => ApplyStatus = 500
  /\ (ApplyDone /\ apply.newApplication # <<>>) =>
       /\ apply.response = <<[status |-> 200, applicationId |-> <<apply.newApplication[1].id>>]>>
       /\ Len(apply.notified) = 1

\* the notification threw and the request was answered 200
C26_Witness ==
  /\ ApplyDone
  /\ apply.notified # <<>> /\ apply.notified[1].result = "throw"
  /\ ApplyStatus = 200

(* ---------------- properties of ProfileEditor.handleSave ---------------- *)

\* the last handleSave ran to its end and no call of it failed
SavedCleanly ==
  /\ editor.saved
  /\ ~editor.profileUpdateError /\ ~editor.fetchCurrentError
  /\ ~editor.insertError /\ ~editor.deleteError

\* C27: after a handleSave all of whose calls succeeded, the user's
\* user_skills rows are the selected skills, one row each; the rows
\* inserted are the selected skills that were not stored, the rows deleted
\* the stored skills that were not selected, no skill is in both, and the
\* rows of other users are as they were.
C27_SkillsSynced ==
  SavedCleanly =>
    LET mine == RowsOf(editor.user_skills, editor.userId)
        stored == SkillIdsOf(RowsOf(editor.storedBefore, editor.userId))
        selected == editor.selectedSkillIds
    IN /\ SkillIdsOf(mine) = selected
       /\ Len(mine) = Cardinality(selected)
       /\ SkillIdsOf(editor.insertedRows) = selected \ stored
       /\ Len(editor.insertedRows) = Cardinality(selected \ stored)
       /\ SkillIdsOf(editor.deletedRows) = stored \ selected
       /\ SkillIdsOf(editor.insertedRows) \cap SkillIdsOf(editor.deletedRows) = {}
       /\ RowsOf(editor.user_skills, "U2") = RowsOf(editor.storedBefore, "U2")

\* a save that both inserted and deleted, keeping one stored skill
C27_Witness ==
  /\ SavedCleanly
  /\ editor.insertedRows # <<>> /\ editor.deletedRows # <<>>
  /\ editor.selectedSkillIds \cap SkillIdsOf(RowsOf(editor.storedBefore, editor.userId)) # {}

(* ------------- the two runs that differ in posterFid only --------------- *)

\* the second run has ended, and the data store answered it as it answered
\* the first: the same inserts failed, the matcher query failed or answered
\* in the same shape
TwinsDone ==
  /\ twin # <<>>
  /\ pc = "done"
  /\ twin[1].jobInsertError = jobInsertError
  /\ twin[1].jobSkillsInsertError = jobSkillsInsertError
  /\ twin[1].matchingUsersError = matchingUsersError
  /\ \/ twin[1].shape = ShapeOf(matchingUsers)
     \/ "none" \in {twin[1].shape, ShapeOf(matchingUsers)}

\* C28: two requests that differ only in the non-zero value of posterFid,
\* served from the same tables by a data store that answers them alike,
\* give the same jobs row, the same job_skills rows, the same set of
\* notification targets and the same status.
C28_PosterFidValueIrrelevant ==
  TwinsDone =>
    /\ twin[1].request.posterFid # request.posterFid
    /\ [twin[1].request EXCEPT !.posterFid = request.posterFid] = request
    /\ twin[1].status = response[1].status
    /\ twin[1].newJob = newJob
    /\ twin[1].jobSkills = SubSeq(job_skills, jobSkillsBefore + 1, Len(job_skills))
    /\ twin[1].targets = Range(uniqueFidsToNotify)

\* both runs inserted the job and had the fid one of them names as
\* posterFid among their targets
C28_Witness ==
  /\ TwinsDone
  /\ response[1].status = 200
  /\ twin[1].request.posterFid[1] \in twin[1].targets
  /\ Cardinality(twin[1].targets) >= 2
  /\ twin[1].jobSkills # <<>>

====
